---- MODULE Spec2Model ----
(***************************************************************************)
(* A model of photodiag's SpatialEncoder (src/photodiag/spatial_encoder.py):*)
(* the engine's configuration and Background Reference, the calibration    *)
(* and processing calls, and the worker pool of process_eco.               *)
(***************************************************************************)
EXTENDS Integers, Sequences, FiniteSets, TLC

(***************************************************************************)
(* Bounds of the model.                                                    *)
(***************************************************************************)
\* pixels per waveform
NCols == 2
\* longest scan (number of scan steps, each with one recording file)
MaxScanLen == 2
\* largest worker count handed to the pool
MaxProc == 2
\* most rows in an array a caller passes to calibrate_background or process
MaxRows == 2

(***************************************************************************)
(* Numbers.  numpy works on float64; the model keeps exact fractions n/d   *)
(* (d > 0, lowest terms) and the three IEEE specials as n/0: 0/0 is NaN,   *)
(* 1/0 is +inf, -1/0 is -inf.  Rounding is not modelled.                   *)
(***************************************************************************)
\* evaluation helpers: Bind(e, F) is F(e) with e evaluated once, and Tup(s)
\* is the sequence s with its elements evaluated
Bind(e, F(_)) == CHOOSE r \in {F(v) : v \in {e}} : TRUE

Tup(s) == s \o <<>>

Abs(x) == IF x < 0 THEN 0 - x ELSE x

Sgn(x) == IF x < 0 THEN 0 - 1 ELSE IF x > 0 THEN 1 ELSE 0

RECURSIVE GCD(_, _)
GCD(a, b) == IF b = 0 THEN a ELSE GCD(b, a % b)

Rat(n, d) ==
    IF d = 0 THEN [n |-> Sgn(n), d |-> 0]
    ELSE LET g == GCD(Abs(n), Abs(d))
         IN  [n |-> Sgn(d) * Sgn(n) * (Abs(n) \div g), d |-> Abs(d) \div g]

Num(k) == [n |-> k, d |-> 1]

NaN == [n |-> 0, d |-> 0]

IsNaN(a) == a.d = 0 /\ a.n = 0

IsInf(a) == a.d = 0 /\ a.n # 0

IsFinite(a) == a.d # 0

Neg(a) == [n |-> 0 - a.n, d |-> a.d]

FAdd(a, b) ==
    IF IsNaN(a) \/ IsNaN(b) THEN NaN
    ELSE IF IsInf(a) THEN (IF IsInf(b) /\ b.n # a.n THEN NaN ELSE a)
    ELSE IF IsInf(b) THEN b
    ELSE Rat(a.n * b.d + b.n * a.d, a.d * b.d)

FSub(a, b) == FAdd(a, Neg(b))

FDiv(a, b) ==
    IF IsNaN(a) \/ IsNaN(b) THEN NaN
    ELSE IF IsInf(b) THEN (IF IsInf(a) THEN NaN ELSE Num(0))
    ELSE IF b.n = 0 THEN Rat(Sgn(a.n), 0)
    ELSE IF IsInf(a) THEN Rat(a.n * Sgn(b.n), 0)
    ELSE Rat(a.n * b.d, a.d * b.n)

FMul(a, b) ==
    IF IsNaN(a) \/ IsNaN(b) THEN NaN
    ELSE IF IsInf(a) \/ IsInf(b) THEN Rat(Sgn(a.n) * Sgn(b.n), 0)
    ELSE Rat(a.n * b.n, a.d * b.d)

\* a < b on non-NaN values
FLess(a, b) ==
    IF IsInf(a) THEN a.n < 0 /\ ~(IsInf(b) /\ b.n < 0)
    ELSE IF IsInf(b) THEN b.n > 0
    ELSE a.n * b.d < b.n * a.d

RECURSIVE FSum(_)
FSum(s) == IF s = <<>> THEN Num(0) ELSE FAdd(Head(s), FSum(Tail(s)))

\* ndarray.mean(axis=0) of a 2-D array held as a sequence of rows: the mean
\* of no rows is 0/0 = NaN in every column (numpy warns and returns NaN)
MeanAxis0(rows) ==
    Tup([j \in 1..NCols |->
            FDiv(FSum([i \in 1..Len(rows) |-> rows[i][j]]), Num(Len(rows)))])

\* a[mask]: the rows of a whose mask entry is TRUE, in order
RECURSIVE Select(_, _)
Select(a, mask) ==
    IF a = <<>> THEN <<>>
    ELSE (IF Head(mask) THEN <<Head(a)>> ELSE <<>>) \o Select(Tail(a), Tail(mask))

\* np.any(mask)
np_any(mask) == \E i \in 1..Len(mask) : mask[i]

(***************************************************************************)
(* Python values.  None is the empty tuple and any other value x of an     *)
(* optional attribute is the one-element tuple <<x>>, so that a mask or an  *)
(* array of length zero is still told from None.                           *)
(***************************************************************************)
None == <<>>

Some(x) == <<x>>

\* bool(x) of an optional string-or-callable attribute: None and the empty
\* string are false, everything else is true
Truthy(x) == x # None /\ x[1] # ""

\* the messages of the exceptions the module raises
EitherNoneErr == "Either 'events_channel' and/or 'dark_shot_filter' should be None"

UnknownMethodErr == "Unknown background removal method"

UnknownEdgeErr == "Unknown edge type"

StepLengthErr == "A reasonable step length should be >= 4"

NoDarkErr == "None of pulse ids correspond to dark shots"

NoBackgroundErr == "Background calibration is not found"

NdimErr == "Input data should be either 1- or 2-dimentional array"

\* h5py cannot open or read the recording
FileErr == "OSError"

Raise(msg) == [status |-> "raise", err |-> msg, out |-> None]

Return(v) == [status |-> "ok", err |-> "", out |-> Some(v)]

(***************************************************************************)
(* The engine: construction and the validated attributes.                  *)
(***************************************************************************)
background_methods == {"div", "sub"}

edge_types == {"falling", "rising"}

\* the three property setters; each returns the message it raises with, or ""
background_method_setter(value) ==
    IF value \notin background_methods THEN UnknownMethodErr ELSE ""

edge_type_setter(value) ==
    IF value \notin edge_types THEN UnknownEdgeErr ELSE ""

\* the bound off by one
step_length_setter_lax(value) ==
    IF value < 3 THEN StepLengthErr ELSE ""

step_length_setter(value) ==
    IF value < 4 THEN StepLengthErr ELSE ""

\* SpatialEncoder.__init__: the result of the constructor call; on success
\* out holds the new engine (channel, roi, dark_shot_event and refinement
\* keep their defaults and are not varied by the model; pix_per_fs, which
\* no method reads, is the first coefficient calibrate_time returns)
init(background_method, step_length, events_channel, dark_shot_filter, edge_type) ==
    IF Truthy(events_channel) /\ Truthy(dark_shot_filter) THEN Raise(EitherNoneErr)
    ELSE IF background_method_setter(background_method) # ""
        THEN Raise(background_method_setter(background_method))
    ELSE IF step_length_setter(step_length) # ""
        THEN Raise(step_length_setter(step_length))
    ELSE IF edge_type_setter(edge_type) # ""
        THEN Raise(edge_type_setter(edge_type))
    ELSE Return([background_method |-> background_method,
                 step_length |-> step_length,
                 events_channel |-> events_channel,
                 dark_shot_filter |-> dark_shot_filter,
                 background |-> None,
                 edge_type |-> edge_type])

\* the mean stored before the mask is looked at
calibrate_background_early(self, data, is_dark) ==
    IF is_dark # None /\ ~np_any(is_dark[1])
    THEN [self |-> [self EXCEPT !.background = Some(MeanAxis0(data))],
          r |-> Raise(NoDarkErr)]
    ELSE Bind(IF is_dark # None THEN Select(data, is_dark[1]) ELSE data,
              LAMBDA sel :
                  [self |-> [self EXCEPT !.background = Some(MeanAxis0(sel))],
                   r |-> Return(None)])

\* calibrate_background: [self |-> the engine after the call, r |-> result]
calibrate_background(self, data, is_dark) ==
    IF is_dark # None /\ ~np_any(is_dark[1])
    THEN [self |-> self, r |-> Raise(NoDarkErr)]
    ELSE Bind(IF is_dark # None THEN Select(data, is_dark[1]) ELSE data,
              LAMBDA sel :
                  [self |-> [self EXCEPT !.background = Some(MeanAxis0(sel))],
                   r |-> Return(None)])

(***************************************************************************)
(* The Edge Locator, find_edge of photodiag/utils.py: for every row the    *)
(* lag at which the cross-correlation with a step template of the given    *)
(* length and polarity is largest (first occurrence), NaN for a row with   *)
(* no finite entry.  refinement is 1.                                      *)
(***************************************************************************)
\* the step template, indexed 0..step_length-1
StepTemplate(step_length, edge_type) ==
    [i \in 0..(step_length - 1) |->
        IF (i < step_length \div 2) = (edge_type = "falling") THEN 1 ELSE 0 - 1]

\* the correlation of one row with the template at lag k
CorrTerm(row, tmpl, step_length, k, j) ==
    IF (j - 1) - k < 0 \/ (j - 1) - k >= step_length THEN Num(0)
    ELSE IF tmpl[(j - 1) - k] = 1 THEN row[j] ELSE Neg(row[j])

CorrAt(row, tmpl, step_length, k) ==
    FSum([j \in 1..NCols |-> CorrTerm(row, tmpl, step_length, k, j)])

\* np.argmax over the lags lo..hi: the first NaN if there is one, else the
\* first lag whose value no other exceeds
ArgMaxLag(c, lo, hi) ==
    IF \E k \in lo..hi : IsNaN(c[k])
    THEN CHOOSE k \in lo..hi : IsNaN(c[k]) /\ \A m \in lo..(k - 1) : ~IsNaN(c[m])
    ELSE CHOOSE k \in lo..hi :
            /\ \A m \in lo..hi : ~FLess(c[k], c[m])
            /\ \A m \in lo..(k - 1) : FLess(c[m], c[k])

\* the correlation curve of one row, entry m standing for lag m - step_length
Correlation(row, step_length, edge_type) ==
    Tup([m \in 1..(NCols + step_length - 1) |->
            CorrAt(row, StepTemplate(step_length, edge_type), step_length,
                   m - step_length)])

EdgeOfRow(row, step_length, edge_type) ==
    IF \A j \in 1..NCols : ~IsFinite(row[j]) THEN NaN
    ELSE Bind(Correlation(row, step_length, edge_type),
              LAMBDA c : Num(ArgMaxLag(c, 1, Len(c)) - step_length))

find_edge(data, step_length, edge_type) ==
    [edge_pos |->
        Tup([i \in 1..Len(data) |-> EdgeOfRow(data[i], step_length, edge_type)])]

(***************************************************************************)
(* process.  An array is [ndim |-> 2, a |-> rows]; a vector is held as     *)
(* [ndim |-> 1, a |-> <<row>>] and an array of more dimensions as          *)
(* [ndim |-> 3, a |-> <<>>].  The background is removed in place (the row   *)
(* array made of a vector is a view of it), so the call also yields the    *)
(* caller's array afterwards.                                              *)
(***************************************************************************)
\* data -= background, or data /= background; data -= 1, on every row
RemoveBackground(rows, background, background_method) ==
    Tup([i \in 1..Len(rows) |->
        Tup([j \in 1..NCols |->
            IF background_method = "sub" THEN FSub(rows[i][j], background[j])
            ELSE IF background_method = "div"
                THEN FSub(FDiv(rows[i][j], background[j]), Num(1))
            ELSE rows[i][j]])])

\* a missing reference taken as "nothing to remove"
process_uncalibrated(self, data, debug) ==
    IF data.ndim > 2 THEN [data |-> data, r |-> Raise(NdimErr)]
    ELSE Bind(IF self.background = None THEN data.a
              ELSE RemoveBackground(data.a, self.background[1], self.background_method),
              LAMBDA corrected :
                  [data |-> [ndim |-> data.ndim, a |-> corrected],
                   r |-> Return(
                       [edge_pos |-> find_edge(corrected, self.step_length,
                                               self.edge_type).edge_pos,
                        raw_input |-> IF debug THEN Some(corrected) ELSE None])])

\* process: [data |-> the caller's array after the call, r |-> result]
process(self, data, debug) ==
    IF self.background = None THEN [data |-> data, r |-> Raise(NoBackgroundErr)]
    ELSE IF data.ndim > 2 THEN [data |-> data, r |-> Raise(NdimErr)]
    ELSE Bind(RemoveBackground(data.a, self.background[1], self.background_method),
              LAMBDA corrected :
                  [data |-> [ndim |-> data.ndim, a |-> corrected],
                   r |-> Return(
                       [edge_pos |-> find_edge(corrected, self.step_length,
                                               self.edge_type).edge_pos,
                        raw_input |-> IF debug THEN Some(corrected) ELSE None])])

(***************************************************************************)
(* Recordings.  A bsread file holds the camera channel (pulse ids and one  *)
(* image per pulse) and the events channel (pulse ids and, per pulse, the  *)
(* flag in column dark_shot_event).  Disk is the sample of recordings the  *)
(* model reads.  File 1 has a lost pulse (id 0) and a dark shot under      *)
(* either strategy, file 2 has a dark shot only for the filter "odd", file *)
(* 4 only for the events channel, and file 3 cannot be read.               *)
(***************************************************************************)
\* an image line that steps from a to b in the middle
Pix(a, b) == Tup([j \in 1..NCols |-> IF 2 * j <= NCols THEN a ELSE b])

FileIds == 1..4

Disk ==
    [f \in FileIds |->
        CASE f = 1 -> [ok |-> TRUE,
                       pulse_id |-> <<0, 1, 2>>,
                       images |-> << <<Pix(9, 9), Pix(9, 9)>>,
                                     <<Pix(4, 2), Pix(4, 2)>>,
                                     <<Pix(2, 2), Pix(2, 4)>> >>,
                       ev_pulse_id |-> <<0, 1, 2, 3>>,
                       ev_dark |-> <<TRUE, FALSE, TRUE, FALSE>>]
          [] f = 2 -> [ok |-> TRUE,
                       pulse_id |-> <<2, 3>>,
                       images |-> << <<Pix(3, 1), Pix(3, 1)>>,
                                     <<Pix(1, 3), Pix(1, 3)>> >>,
                       ev_pulse_id |-> <<2, 3>>,
                       ev_dark |-> <<FALSE, FALSE>>]
          [] f = 3 -> [ok |-> FALSE,
                       pulse_id |-> <<>>,
                       images |-> <<>>,
                       ev_pulse_id |-> <<>>,
                       ev_dark |-> <<>>]
          [] f = 4 -> [ok |-> TRUE,
                       pulse_id |-> <<4, 6>>,
                       images |-> << <<Pix(1, 1), Pix(1, 1)>>,
                                     <<Pix(2, 6), Pix(2, 6)>> >>,
                       ev_pulse_id |-> <<4, 5, 6>>,
                       ev_dark |-> <<TRUE, FALSE, FALSE>>]]

\* the pulse-id predicates a caller may supply as dark_shot_filter
ApplyFilter(name, pulse_id) ==
    Tup([i \in 1..Len(pulse_id) |->
            IF name = "odd" THEN pulse_id[i] % 2 = 1 ELSE FALSE])

RECURSIVE SortSet(_)
SortSet(S) ==
    IF S = {} THEN <<>>
    ELSE LET m == CHOOSE x \in S : \A y \in S : x <= y
         IN  <<m>> \o SortSet(S \ {m})

FirstIndex(seq, v) ==
    CHOOSE i \in 1..Len(seq) : seq[i] = v /\ \A j \in 1..(i - 1) : seq[j] # v

\* np.intersect1d(a, b, return_indices=True): the sorted common values and
\* the index of the first occurrence of each in a and in b
intersect1d(a, b) ==
    Bind(SortSet({a[i] : i \in 1..Len(a)} \cap {b[i] : i \in 1..Len(b)}),
         LAMBDA pid :
             [pid |-> pid,
              index |-> Tup([k \in 1..Len(pid) |-> FirstIndex(a, pid[k])]),
              event_index |-> Tup([k \in 1..Len(pid) |-> FirstIndex(b, pid[k])])])

\* a[index] for a sequence of positions
Take(a, index) == Tup([k \in 1..Len(index) |-> a[index[k]]])

\* images[...].astype(float).mean(axis=1): every image averaged over its lines
Waveforms(images) ==
    Tup([i \in 1..Len(images) |->
        MeanAxis0(Tup([y \in 1..Len(images[i]) |->
                      Tup([j \in 1..NCols |-> Num(images[i][y][j])])]))])

\* _read_bsread_file: Raise(FileErr), or Return of data, pulse_id, is_dark
\* and images (None unless return_images)
\* the branch of an events channel: the shots whose pulse id is also in the
\* events channel and is not 0, and for each the flag found there
ReadByEvents(h5f, return_images) ==
    Bind(intersect1d(h5f.pulse_id, h5f.ev_pulse_id), LAMBDA common :
    Bind(Tup([k \in 1..Len(common.pid) |-> common.pid[k] # 0]), LAMBDA keep :
    Bind(Take(h5f.images, Select(common.index, keep)), LAMBDA images :
        [data |-> Waveforms(images),
         pulse_id |-> Take(h5f.pulse_id, Select(common.index, keep)),
         is_dark |-> Some(Take(h5f.ev_dark, Select(common.event_index, keep))),
         images |-> IF return_images THEN Some(images) ELSE None])))

\* the other branches: the shots whose pulse id is not 0, and for each what
\* dark_shot_filter says of its pulse id, if there is a filter
ReadByPulseId(h5f, dark_shot_filter, return_images) ==
    Bind(Tup([i \in 1..Len(h5f.pulse_id) |-> h5f.pulse_id[i] # 0]), LAMBDA index :
    Bind(Select(h5f.images, index), LAMBDA images :
        [data |-> Waveforms(images),
         pulse_id |-> Select(h5f.pulse_id, index),
         is_dark |-> IF Truthy(dark_shot_filter)
                     THEN Some(Select(ApplyFilter(dark_shot_filter[1], h5f.pulse_id),
                                      index))
                     ELSE None,
         images |-> IF return_images THEN Some(images) ELSE None]))

read_bsread_file(self, filepath, return_images) ==
    IF ~Disk[filepath].ok THEN Raise(FileErr)
    ELSE IF Truthy(self.events_channel)
        THEN Return(ReadByEvents(Disk[filepath], return_images))
    ELSE Return(ReadByPulseId(Disk[filepath], self.dark_shot_filter, return_images))

\* the mask applied the wrong way round
MaskEdges_lit(edge_pos, is_dark) ==
    Tup([i \in 1..Len(edge_pos) |-> IF is_dark[i] THEN edge_pos[i] ELSE NaN])

\* output['edge_pos'][is_dark] = np.nan
MaskEdges(edge_pos, is_dark) ==
    Tup([i \in 1..Len(edge_pos) |-> IF is_dark[i] THEN NaN ELSE edge_pos[i]])

\* the engine recalibrated from the file only when it holds no reference yet
Recalibrate_once(self, f) ==
    IF (Truthy(self.events_channel) \/ Truthy(self.dark_shot_filter))
       /\ self.background = None
    THEN calibrate_background(self, f.data, f.is_dark)
    ELSE [self |-> self,
          r |-> IF self.background = None THEN Raise(NoBackgroundErr)
                ELSE Return(None)]

\* process_hdf5: [self |-> the engine after the call, r |-> result]
\* lines 195-199: the engine recalibrated from the file, or the check that a
\* reference exists
Recalibrate(self, f) ==
    IF Truthy(self.events_channel) \/ Truthy(self.dark_shot_filter)
    THEN calibrate_background(self, f.data, f.is_dark)
    ELSE [self |-> self,
          r |-> IF self.background = None THEN Raise(NoBackgroundErr)
                ELSE Return(None)]

\* lines 201-210: process, and the output assembled
ProcessRead(self, f, debug) ==
    Bind(process(self, [ndim |-> 2, a |-> f.data], debug), LAMBDA pr :
        IF pr.r.status = "raise" THEN [self |-> self, r |-> pr.r]
        ELSE [self |-> self,
              r |-> Return([edge_pos |-> IF f.is_dark # None
                                         THEN MaskEdges(pr.r.out[1].edge_pos,
                                                        f.is_dark[1])
                                         ELSE pr.r.out[1].edge_pos,
                            raw_input |-> pr.r.out[1].raw_input,
                            pulse_id |-> f.pulse_id,
                            is_dark |-> f.is_dark,
                            images |-> f.images])])

process_hdf5(self, filepath, debug) ==
    Bind(read_bsread_file(self, filepath, debug), LAMBDA rd :
        IF rd.status = "raise" THEN [self |-> self, r |-> rd]
        ELSE Bind(Recalibrate(self, rd.out[1]), LAMBDA cal :
            IF cal.r.status = "raise" THEN [self |-> self, r |-> cal.r]
            ELSE ProcessRead(cal.self, rd.out[1], debug)))

(***************************************************************************)
(* Scans.  An eco scan file lists, per scan step, the readbacks of the     *)
(* scanned delay (in seconds, here the decimal m * 10^e) and the files     *)
(* written at that step, the bsread recording first.                       *)
(***************************************************************************)
RECURSIVE Pow10(_)
Pow10(k) == IF k = 0 THEN 1 ELSE 10 * Pow10(k - 1)

\* readback * 1e15
ToFemtoseconds(readback) ==
    IF readback.e + 15 >= 0 THEN Num(readback.m * Pow10(readback.e + 15))
    ELSE Rat(readback.m, Pow10(0 - (readback.e + 15)))

\* np.ravel of a list of lists
RECURSIVE Ravel(_)
Ravel(a) == IF a = <<>> THEN <<>> ELSE Head(a) \o Ravel(Tail(a))

\* the scan file of a scan over the recordings fs: step i stands at i fs
EcoScan(fs) ==
    [scan_readbacks |-> Tup([i \in 1..Len(fs) |-> <<[m |-> i, e |-> 0 - 15]>>]),
     scan_files |-> Tup([i \in 1..Len(fs) |-> <<fs[i], 3>>])]

\* every step of a scan writes a recording of its own
FileSeqs ==
    {fs \in UNION {[1..n -> FileIds] : n \in 0..MaxScanLen} :
        \A i, j \in 1..Len(fs) : fs[i] = fs[j] => i = j}

ScanFiles == {EcoScan(fs) : fs \in FileSeqs}

\* _read_eco_scan
read_eco_scan(eco_scan) ==
    Bind(Ravel(eco_scan.scan_readbacks), LAMBDA flat :
        [scan_pos_fs |-> Tup([i \in 1..Len(flat) |-> ToFemtoseconds(flat[i])]),
         bsread_files |-> Tup([i \in 1..Len(eco_scan.scan_files) |->
                                  eco_scan.scan_files[i][1]])])

(***************************************************************************)
(* process_eco.  pool.map hands the engine, pickled, to the workers with   *)
(* every task, so no call changes the caller's engine; it returns the      *)
(* results in the order of the files, or raises what a failed file raised. *)
(* pool_map gives the possible outcomes of that call as one step; the      *)
(* workers' steps are the subject of the pool section below.               *)
(***************************************************************************)
pool_map(self, bsread_files, debug) ==
    Bind(Tup([i \in 1..Len(bsread_files) |->
                 process_hdf5(self, bsread_files[i], debug).r]),
         LAMBDA res :
             IF \A i \in 1..Len(res) : res[i].status = "ok"
             THEN {Return(Tup([i \in 1..Len(res) |-> res[i].out[1]]))}
             ELSE {res[i] : i \in {k \in 1..Len(res) : res[k].status = "raise"}})

\* step_output['scan_pos_fs'] = scan_pos_fs[i]
Annotate(output, scan_pos_fs) ==
    Tup([i \in 1..Len(output) |->
        [edge_pos |-> output[i].edge_pos,
         raw_input |-> output[i].raw_input,
         pulse_id |-> output[i].pulse_id,
         is_dark |-> output[i].is_dark,
         images |-> output[i].images,
         scan_pos_fs |-> scan_pos_fs[i]]])

\* process_eco: the set of possible results
process_eco(self, filepath, nproc, debug) ==
    IF ~(Truthy(self.events_channel) \/ Truthy(self.dark_shot_filter))
       /\ self.background = None
    THEN {Raise(NoBackgroundErr)}
    ELSE Bind(read_eco_scan(filepath), LAMBDA scan :
             {IF m.status = "raise" THEN m
              ELSE Return(Annotate(m.out[1], scan.scan_pos_fs)) :
                  m \in pool_map(self, scan.bsread_files, debug)})

(***************************************************************************)
(* calibrate_time.                                                         *)
(***************************************************************************)
\* np.nanmean: the mean of the entries that are not NaN (NaN if there is none)
NanMean(v) ==
    Bind(Select(v, Tup([i \in 1..Len(v) |-> ~IsNaN(v[i])])),
         LAMBDA w : FDiv(FSum(w), Num(Len(w))))

\* np.polyfit(x, y, 1) on finite samples: least squares, and for a single
\* sample the solution of least norm of the column-scaled system
Slope(x, y, n, sx, sy) ==
    IF Len(x) = 1 THEN FDiv(y[1], FMul(Num(2), x[1]))
    ELSE FDiv(FSub(FMul(n, FSum([i \in 1..Len(x) |-> FMul(x[i], y[i])])),
                   FMul(sx, sy)),
              FSub(FMul(n, FSum([i \in 1..Len(x) |-> FMul(x[i], x[i])])),
                   FMul(sx, sx)))

PolyfitFinite(x, y) ==
    Bind(FSum(x), LAMBDA sx :
    Bind(FSum(y), LAMBDA sy :
    Bind(Slope(x, y, Num(Len(x)), sx, sy), LAMBDA slope :
        <<slope, FDiv(FSub(sy, FMul(slope, sx)), Num(Len(x)))>>)))

\* np.polyfit(x, y, 1): the possible results.  With a sample that is not
\* finite LAPACK either fails to converge or returns NaN coefficients.
polyfit(x, y) ==
    IF Len(x) = 0 THEN {Raise("TypeError")}
    ELSE IF \E i \in 1..Len(y) : ~IsFinite(y[i])
        THEN {Raise("LinAlgError"), Return(<<NaN, NaN>>)}
    ELSE {Return(PolyfitFinite(x, y))}

\* the loop of method 'avg_wf': the result of the first step that raises, or
\* the edge position of the averaged waveform of every step
RECURSIVE AvgWfLoop(_, _)
AvgWfLoop(self, bsread_files) ==
    IF bsread_files = <<>> THEN Return(<<>>)
    ELSE Bind(read_bsread_file(self, Head(bsread_files), FALSE), LAMBDA rd :
        IF rd.status = "raise" THEN rd
        ELSE Bind(process(self, [ndim |-> 1, a |-> <<MeanAxis0(rd.out[1].data)>>],
                          FALSE).r,
                  LAMBDA results :
            IF results.status = "raise" THEN results
            ELSE Bind(AvgWfLoop(self, Tail(bsread_files)), LAMBDA rest :
                IF rest.status = "raise" THEN rest
                ELSE Return(<<results.out[1].edge_pos[1]>> \o rest.out[1]))))

\* the samples (scan_pos_fs, edge_pos_pix) of a method, or what it raised
Samples(self, filepath, method, nproc) ==
    IF method = "avg_wf"
    THEN Bind(read_eco_scan(filepath), LAMBDA scan :
         Bind(AvgWfLoop(self, scan.bsread_files), LAMBDA loop :
             {IF loop.status = "raise" THEN loop
              ELSE Return([x |-> scan.scan_pos_fs, y |-> loop.out[1]])}))
    ELSE IF method = "avg_edge"
    THEN {IF results.status = "raise" THEN results
          ELSE Return([x |-> Tup([i \in 1..Len(results.out[1]) |->
                                     results.out[1][i].scan_pos_fs]),
                       y |-> Tup([i \in 1..Len(results.out[1]) |->
                                     NanMean(results.out[1][i].edge_pos)])]) :
              results \in process_eco(self, filepath, nproc, FALSE)}
    ELSE {Raise("UnboundLocalError")}

\* calibrate_time: the set of possible [self |-> engine after, r |-> result]
calibrate_time(self, filepath, method, nproc) ==
    IF self.events_channel = None /\ self.dark_shot_filter = None
       /\ self.background = None
    THEN {[self |-> self, r |-> Raise(NoBackgroundErr)]}
    ELSE UNION {
        IF s.status = "raise" THEN {[self |-> self, r |-> s]}
        ELSE {IF fit.status = "raise" THEN [self |-> self, r |-> fit]
              ELSE [self |-> self,
                    r |-> Return([scan_pos_fs |-> s.out[1].x,
                                  edge_pos_pix |-> s.out[1].y,
                                  fit_coeff |-> fit.out[1]])] :
                  fit \in polyfit(s.out[1].x, s.out[1].y)} :
            s \in Samples(self, filepath, method, nproc)}

(***************************************************************************)
(* The caller.  eng is the engine the caller holds (None before a          *)
(* successful construction); last is the call that has just finished, with *)
(* its arguments and its result, until the caller takes the result; pool   *)
(* is the pool.map call in progress, None when there is none.              *)
(***************************************************************************)
VARIABLES eng, last, pool

vars == <<eng, last, pool>>

\* what a caller may pass
MethodArgs == {"div", "sub", "mul"}

StepLengthArgs == {3, 4}

EdgeArgs == {"falling", "rising", "both"}

ChannelArgs == {None, Some(""), Some("EVENTS")}

FilterArgs == {None, Some("odd")}

NumRow(row) == Tup([j \in 1..NCols |-> Num(row[j])])

SampleRows == {NumRow(Pix(3, 1)), NumRow(Pix(0, 2))}

RowSeqs == UNION {[1..n -> SampleRows] : n \in 0..MaxRows}

Masks(n) == {None} \cup {Some(m) : m \in [1..n -> BOOLEAN]}

Arrays ==
    {[ndim |-> 1, a |-> <<row>>] : row \in SampleRows}
    \cup {[ndim |-> 2, a |-> rows] : rows \in RowSeqs}
    \cup {[ndim |-> 3, a |-> <<>>]}

\* a finished call: its arguments, its result and the engine it was made on
Called(op, args, r) == Some([op |-> op, args |-> args, r |-> r, before |-> eng])

Init ==
    /\ eng = None
    /\ last = None
    /\ pool = None

\* SpatialEncoder(...): the caller holds the new engine only if no check raised
Construct(background_method, step_length, events_channel, dark_shot_filter, edge_type) ==
    /\ last = None
    /\ eng = None
    /\ \E r \in {init(background_method, step_length, events_channel,
                       dark_shot_filter, edge_type)} :
          /\ eng' = IF r.status = "ok" THEN r.out ELSE eng
          /\ last' = Called("init",
                            [background_method |-> background_method,
                             step_length |-> step_length,
                             events_channel |-> events_channel,
                             dark_shot_filter |-> dark_shot_filter,
                             edge_type |-> edge_type], r)
    /\ pool' = pool

\* engine.background_method = value
SetBackgroundMethod(value) ==
    LET msg == background_method_setter(value)
    IN  /\ last = None
        /\ eng # None
        /\ eng' = IF msg = "" THEN Some([eng[1] EXCEPT !.background_method = value])
                  ELSE eng
        /\ last' = Called("background_method", [value |-> value],
                          IF msg = "" THEN Return(None) ELSE Raise(msg))
        /\ pool' = pool

\* engine.edge_type = value
SetEdgeType(value) ==
    LET msg == edge_type_setter(value)
    IN  /\ last = None
        /\ eng # None
        /\ eng' = IF msg = "" THEN Some([eng[1] EXCEPT !.edge_type = value]) ELSE eng
        /\ last' = Called("edge_type", [value |-> value],
                          IF msg = "" THEN Return(None) ELSE Raise(msg))
        /\ pool' = pool

\* engine.step_length = value
SetStepLength(value) ==
    LET msg == step_length_setter(value)
    IN  /\ last = None
        /\ eng # None
        /\ eng' = IF msg = "" THEN Some([eng[1] EXCEPT !.step_length = value]) ELSE eng
        /\ last' = Called("step_length", [value |-> value],
                          IF msg = "" THEN Return(None) ELSE Raise(msg))
        /\ pool' = pool

\* engine.events_channel = value: a plain attribute, assigned unchecked
SetEventsChannel(value) ==
    /\ last = None
    /\ eng # None
    /\ eng' = Some([eng[1] EXCEPT !.events_channel = value])
    /\ last' = Called("events_channel", [value |-> value], Return(None))
    /\ pool' = pool

\* engine.dark_shot_filter = value: a plain attribute, assigned unchecked
SetDarkShotFilter(value) ==
    /\ last = None
    /\ eng # None
    /\ eng' = Some([eng[1] EXCEPT !.dark_shot_filter = value])
    /\ last' = Called("dark_shot_filter", [value |-> value], Return(None))
    /\ pool' = pool

CalibrateBackground(data, is_dark) ==
    /\ last = None
    /\ eng # None
    /\ \E c \in {calibrate_background(eng[1], data, is_dark)} :
          /\ eng' = Some(c.self)
          /\ last' = Called("calibrate_background",
                            [data |-> data, is_dark |-> is_dark], c.r)
    /\ pool' = pool

\* process(data, debug) on an array the caller holds; after is that array
\* once the call is over
Process(data, debug) ==
    /\ last = None
    /\ eng # None
    /\ \E p \in {process(eng[1], data, debug)} :
          last' = Called("process",
                         [data |-> data, debug |-> debug, after |-> p.data], p.r)
    /\ eng' = eng
    /\ pool' = pool

\* process(data, debug) once more, on the array the caller passed to the
\* call that has just returned: held is that array as the caller holds it now,
\* first the result of the first call
ProcessAgain ==
    /\ last # None
    /\ last[1].op = "process"
    /\ last[1].r.status = "ok"
    /\ \E p \in {process(eng[1], last[1].args.after, last[1].args.debug)} :
          last' = Called("process_again",
                         [data |-> last[1].args.data, debug |-> last[1].args.debug,
                          held |-> last[1].args.after, first |-> last[1].r,
                          after |-> p.data], p.r)
    /\ eng' = eng
    /\ pool' = pool

ProcessHdf5(filepath, debug) ==
    /\ last = None
    /\ eng # None
    /\ \E p \in {process_hdf5(eng[1], filepath, debug)} :
          /\ eng' = Some(p.self)
          /\ last' = Called("process_hdf5",
                            [filepath |-> filepath, debug |-> debug], p.r)
    /\ pool' = pool

ProcessEco(filepath, nproc, debug) ==
    /\ last = None
    /\ eng # None
    /\ \E r \in process_eco(eng[1], filepath, nproc, debug) :
          last' = Called("process_eco",
                         [filepath |-> filepath, nproc |-> nproc, debug |-> debug], r)
    /\ eng' = eng
    /\ pool' = pool

CalibrateTime(filepath, method, nproc) ==
    /\ last = None
    /\ eng # None
    /\ \E c \in calibrate_time(eng[1], filepath, method, nproc) :
          /\ eng' = Some(c.self)
          /\ last' = Called("calibrate_time",
                            [filepath |-> filepath, method |-> method,
                             nproc |-> nproc], c.r)
    /\ pool' = pool

\* the caller takes the result of the finished call
TakeResult ==
    /\ last # None
    /\ last' = None
    /\ UNCHANGED <<eng, pool>>

Next ==
    \/ \E bm \in MethodArgs, sl \in StepLengthArgs, ec \in ChannelArgs,
          dsf \in FilterArgs, et \in EdgeArgs : Construct(bm, sl, ec, dsf, et)
    \/ \E v \in MethodArgs : SetBackgroundMethod(v)
    \/ \E v \in EdgeArgs : SetEdgeType(v)
    \/ \E v \in StepLengthArgs : SetStepLength(v)
    \/ \E v \in ChannelArgs : SetEventsChannel(v)
    \/ \E v \in FilterArgs : SetDarkShotFilter(v)
    \/ \E rows \in RowSeqs : \E m \in Masks(Len(rows)) : CalibrateBackground(rows, m)
    \/ \E d \in Arrays, debug \in BOOLEAN : Process(d, debug)
    \/ ProcessAgain
    \/ \E f \in FileIds, debug \in BOOLEAN : ProcessHdf5(f, debug)
    \/ \E sc \in ScanFiles : ProcessEco(sc, MaxProc, FALSE)
    \/ \E sc \in ScanFiles, method \in {"avg_wf", "avg_edge"} :
          CalibrateTime(sc, method, MaxProc)
    \/ TakeResult

Spec == Init /\ [][Next]_vars

(***************************************************************************)
(* Properties of the engine (Spec).  They are stated of the call that has  *)
(* just finished: last[1].before is the engine it was made on, eng the     *)
(* engine it left.                                                         *)
(***************************************************************************)
Done(op) == last # None /\ last[1].op = op

\* a dark-shot discrimination strategy is in use
Configured(self) == Truthy(self.events_channel) \/ Truthy(self.dark_shot_filter)

\* what _read_bsread_file gives for a file that can be read
FileRead(self, filepath) == read_bsread_file(self, filepath, FALSE).out[1]

\* the edge positions the locator gives for the shots of a file, with the
\* reference of self removed
Located(self, filepath) ==
    process(self, [ndim |-> 2, a |-> FileRead(self, filepath).data], FALSE).r.out[1].edge_pos

\* C4: on an engine without a reference, process raises "Background
\* calibration is not found" and leaves the caller's data alone, whatever the
\* strategy; without a reference and without a strategy process_eco raises it
\* too, and process_hdf5 raises it for every file that can be read and raises
\* the read error for a file that cannot: no call goes on without a reference.
C4_MissingCalibration ==
    (last # None /\ last[1].before # None /\ last[1].before[1].background = None) =>
        /\ last[1].op = "process" =>
              /\ last[1].r = Raise(NoBackgroundErr)
              /\ last[1].args.after = last[1].args.data
        /\ (~Configured(last[1].before[1]) /\ last[1].op = "process_hdf5") =>
              /\ last[1].r.status = "raise"
              /\ Disk[last[1].args.filepath].ok => last[1].r = Raise(NoBackgroundErr)
              /\ ~Disk[last[1].args.filepath].ok => last[1].r = Raise(FileErr)
              /\ eng = last[1].before
        /\ (~Configured(last[1].before[1]) /\ last[1].op = "process_eco") =>
              last[1].r = Raise(NoBackgroundErr)

\* process on two rows of data, on an engine with a strategy and no reference
C4_Witness ==
    /\ Done("process")
    /\ last[1].before[1].background = None
    /\ Configured(last[1].before[1])
    /\ last[1].args.data.ndim = 2
    /\ Len(last[1].args.data.a) = 2
    /\ last[1].r = Raise(NoBackgroundErr)

\* C5: calibrate_time on an engine without a reference raises "Background
\* calibration is not found" if no strategy is set, and does not raise it if
\* one is set, for both methods.
C5_CalibrateTimeGuard ==
    (Done("calibrate_time") /\ last[1].before[1].background = None) =>
        /\ (last[1].before[1].events_channel = None
               /\ last[1].before[1].dark_shot_filter = None)
              => last[1].r = Raise(NoBackgroundErr)
        /\ Configured(last[1].before[1]) => last[1].r # Raise(NoBackgroundErr)

\* C6: the constructor raises, and the caller gets no engine, exactly when
\* both strategies are given, or step_length is below 4, or background_method
\* is not 'sub' or 'div', or edge_type is not 'falling' or 'rising'; otherwise
\* it returns an engine with the options as given and no reference.
C6_ConstructorRejects ==
    Done("init") =>
        IF \/ Truthy(last[1].args.events_channel) /\ Truthy(last[1].args.dark_shot_filter)
           \/ last[1].args.step_length < 4
           \/ last[1].args.background_method \notin {"sub", "div"}
           \/ last[1].args.edge_type \notin {"falling", "rising"}
        THEN /\ last[1].r.status = "raise"
             /\ last[1].r.err \in {EitherNoneErr, UnknownMethodErr, UnknownEdgeErr,
                                   StepLengthErr}
             /\ eng = None
        ELSE /\ last[1].r.status = "ok"
             /\ eng = last[1].r.out
             /\ eng[1] = [background_method |-> last[1].args.background_method,
                          step_length |-> last[1].args.step_length,
                          events_channel |-> last[1].args.events_channel,
                          dark_shot_filter |-> last[1].args.dark_shot_filter,
                          background |-> None,
                          edge_type |-> last[1].args.edge_type]

\* step_length 3 with everything else valid
C6_Witness ==
    /\ Done("init")
    /\ last[1].args.step_length = 3
    /\ last[1].args.background_method = "div"
    /\ last[1].args.edge_type = "rising"
    /\ last[1].args.events_channel = None
    /\ last[1].r = Raise(StepLengthErr)
    /\ eng = None

\* C7: in what process_hdf5 returns, the edge position of every shot flagged
\* dark is NaN and the edge position of every other shot is what the edge
\* locator gave for it; there is a dark mask exactly when a strategy is set.
C7_DarkShotsNaN ==
    (Done("process_hdf5") /\ last[1].r.status = "ok") =>
        /\ (last[1].r.out[1].is_dark # None) <=> Configured(eng[1])
        /\ Len(last[1].r.out[1].edge_pos) = Len(last[1].r.out[1].pulse_id)
        /\ \A i \in 1..Len(last[1].r.out[1].edge_pos) :
              IF last[1].r.out[1].is_dark # None /\ last[1].r.out[1].is_dark[1][i]
              THEN IsNaN(last[1].r.out[1].edge_pos[i])
              ELSE last[1].r.out[1].edge_pos[i]
                     = Located(eng[1], last[1].args.filepath)[i]

\* a file with a dark shot for which the locator found an edge, and a shot
\* that is not dark
C7_Witness ==
    /\ Done("process_hdf5")
    /\ last[1].r.status = "ok"
    /\ last[1].r.out[1].is_dark # None
    /\ \E i, j \in 1..Len(last[1].r.out[1].edge_pos) :
          /\ last[1].r.out[1].is_dark[1][i]
          /\ ~IsNaN(Located(eng[1], last[1].args.filepath)[i])
          /\ ~last[1].r.out[1].is_dark[1][j]
          /\ ~IsNaN(last[1].r.out[1].edge_pos[j])

\* the rows calibrate_background(data, is_dark) is to average
DarkRows(data, is_dark) == IF is_dark = None THEN data ELSE Select(data, is_dark[1])

\* C8: calibrate_background with a mask that selects no row raises and leaves
\* the engine, its reference included, as it was; every other call returns
\* and leaves as reference the column-wise mean of the selected rows (all
\* rows without a mask), whatever the reference was, and changes nothing else.
C8_CalibrateBackground ==
    Done("calibrate_background") =>
        IF last[1].args.is_dark # None
           /\ DarkRows(last[1].args.data, last[1].args.is_dark) = <<>>
        THEN /\ last[1].r = Raise(NoDarkErr)
             /\ eng = last[1].before
        ELSE /\ last[1].r.status = "ok"
             /\ eng[1] = [last[1].before[1] EXCEPT !.background =
                            Some(MeanAxis0(DarkRows(last[1].args.data,
                                                    last[1].args.is_dark)))]

\* rows given with a mask that flags none of them, on an engine with a
\* reference
C8_Witness ==
    /\ Done("calibrate_background")
    /\ last[1].r = Raise(NoDarkErr)
    /\ Len(last[1].args.data) = 2
    /\ last[1].before[1].background # None
    /\ eng = last[1].before

\* C9: the configuration of an engine is valid in every state: the background
\* method and the edge type are of their sets, step_length is at least 4 and
\* at most one strategy is set.
C9_ValidConfiguration ==
    eng # None =>
        /\ eng[1].background_method \in {"sub", "div"}
        /\ eng[1].edge_type \in {"falling", "rising"}
        /\ eng[1].step_length >= 4
        /\ ~(Truthy(eng[1].events_channel) /\ Truthy(eng[1].dark_shot_filter))

\* C10: process_hdf5 of a file that can be read, on an engine with a
\* strategy: if the file has no dark shot the call raises and the engine is
\* as before, an earlier reference included; otherwise the reference it
\* leaves is the mean of the file's own dark shots and the edge positions of
\* the other shots are the ones located with that reference removed.  On an
\* engine without a strategy the call leaves the engine as it was.
C10_OwnDarkShots ==
    (Done("process_hdf5") /\ Disk[last[1].args.filepath].ok) =>
        IF ~Configured(last[1].before[1]) THEN eng = last[1].before
        ELSE IF ~np_any(FileRead(last[1].before[1], last[1].args.filepath).is_dark[1])
            THEN /\ last[1].r = Raise(NoDarkErr)
                 /\ eng = last[1].before
        ELSE /\ last[1].r.status = "ok"
             /\ eng[1] = [last[1].before[1] EXCEPT !.background =
                    Some(MeanAxis0(DarkRows(
                        FileRead(last[1].before[1], last[1].args.filepath).data,
                        FileRead(last[1].before[1], last[1].args.filepath).is_dark)))]
             /\ \A i \in 1..Len(last[1].r.out[1].edge_pos) :
                   ~last[1].r.out[1].is_dark[1][i] =>
                       last[1].r.out[1].edge_pos[i]
                         = Located(eng[1], last[1].args.filepath)[i]

\* a file processed on an engine that held another reference
C10_Witness ==
    /\ Done("process_hdf5")
    /\ last[1].r.status = "ok"
    /\ Configured(last[1].before[1])
    /\ last[1].before[1].background # None
    /\ last[1].before[1].background # eng[1].background
    /\ \E i \in 1..Len(last[1].r.out[1].edge_pos) : ~IsNaN(last[1].r.out[1].edge_pos[i])

\* C11: process called a second time on the array the caller passed the
\* first time, with the reference unchanged, is given the same raw data and
\* returns what the first call returned (edge positions and, with debug, the
\* corrected waveforms), for 'sub' and for 'div', for 1-D and 2-D data; stated
\* for a reference whose entries are finite and not zero.
C11_Repeatable ==
    (/\ Done("process_again")
     /\ \A j \in 1..NCols : /\ IsFinite(eng[1].background[1][j])
                            /\ eng[1].background[1][j] # Num(0)) =>
        /\ last[1].args.held = last[1].args.data
        /\ last[1].r = last[1].args.first

(***************************************************************************)
(* The pool.  pool.map cuts the files into chunks of chunksize files and   *)
(* queues one task per chunk, each with its own pickled copy of the        *)
(* engine; a free worker takes the next task, runs process_hdf5 on its     *)
(* files in order with that copy and hands back the list of results, or    *)
(* the exception that ended the chunk.  The results are stored by chunk    *)
(* number, the first exception to arrive is kept, and the call returns or  *)
(* raises once every chunk has been handed back.  CPython takes chunks of  *)
(* ceil(N / (4 nproc)) files; here the chunk size is any of 1..N.  arrived  *)
(* lists the chunks in the order they were handed back.                    *)
(***************************************************************************)
ChunkFirst(k, chunksize) == (k - 1) * chunksize + 1

ChunkLen(k, chunksize, n) ==
    IF k * chunksize <= n THEN chunksize ELSE n - (k - 1) * chunksize

NumChunks(n, chunksize) == (n + chunksize - 1) \div chunksize

IdleWorker == [chunk |-> 0, done |-> 0, self |-> None, acc |-> <<>>]

\* the results stored in the order the chunks arrive
SetChunk_arrival(value, k, chunksize, acc) ==
    Bind(Cardinality({i \in 1..Len(value) : value[i] # None}), LAMBDA filled :
        Tup([i \in 1..Len(value) |->
                IF i > filled /\ i <= filled + Len(acc) THEN Some(acc[i - filled])
                ELSE value[i]]))

\* value[i*chunksize:(i+1)*chunksize] = result
SetChunk(value, k, chunksize, acc) ==
    Tup([i \in 1..Len(value) |->
            IF i >= ChunkFirst(k, chunksize) /\ i < ChunkFirst(k, chunksize) + Len(acc)
            THEN Some(acc[i - ChunkFirst(k, chunksize) + 1])
            ELSE value[i]])

\* a placeholder result
NoResult ==
    [edge_pos |-> <<>>, raw_input |-> None, pulse_id |-> <<>>, is_dark |-> None,
     images |-> None]

\* a chunk that raised handed back as placeholder results
Deliver_salvage(p, w, acc, exc) ==
    [p EXCEPT !.workers[w] = IdleWorker,
              !.left = p.left - 1,
              !.arrived = Append(p.arrived, p.workers[w].chunk),
              !.value = SetChunk(p.value, p.workers[w].chunk, p.chunksize,
                                 IF exc = None THEN acc
                                 ELSE [i \in 1..ChunkLen(p.workers[w].chunk, p.chunksize,
                                                         Len(p.value)) |-> NoResult])]

\* MapResult._set: a chunk handed back, with its results (acc) or its exception
Deliver(p, w, acc, exc) ==
    [p EXCEPT !.workers[w] = IdleWorker,
              !.left = p.left - 1,
              !.arrived = Append(p.arrived, p.workers[w].chunk),
              !.value = IF exc = None /\ p.error = None
                        THEN SetChunk(p.value, p.workers[w].chunk, p.chunksize, acc)
                        ELSE p.value,
              !.error = IF exc # None /\ p.error = None THEN exc ELSE p.error]

\* process_eco up to pool.map: the check of lines 223-227, then the tasks queued
MapStart(filepath, nproc, debug, chunksize) ==
    /\ last = None
    /\ pool = None
    /\ eng # None
    /\ IF ~(Truthy(eng[1].events_channel) \/ Truthy(eng[1].dark_shot_filter))
          /\ eng[1].background = None
       THEN /\ chunksize = 1
            /\ last' = Called("process_eco",
                              [filepath |-> filepath, nproc |-> nproc,
                               debug |-> debug, chunksize |-> 0, arrived |-> <<>>],
                              Raise(NoBackgroundErr))
            /\ pool' = pool
       ELSE \E scan \in {read_eco_scan(filepath)} :
            /\ chunksize <= Len(scan.bsread_files) \/ chunksize = 1
            /\ pool' = Some([args |-> [filepath |-> filepath, nproc |-> nproc,
                                       debug |-> debug],
                             scan_pos_fs |-> scan.scan_pos_fs,
                             bsread_files |-> scan.bsread_files,
                             chunksize |-> chunksize,
                             next |-> 1,
                             arrived |-> <<>>,
                             left |-> NumChunks(Len(scan.bsread_files), chunksize),
                             workers |-> [w \in 1..nproc |-> IdleWorker],
                             value |-> Tup([i \in 1..Len(scan.bsread_files) |-> None]),
                             error |-> None])
            /\ last' = last
    /\ UNCHANGED eng

\* a free worker (the first of them: they are alike) takes the next chunk,
\* with the copy of the engine pickled with it
WorkerTake(w) ==
    /\ pool # None
    /\ w \in DOMAIN pool[1].workers
    /\ pool[1].workers[w].chunk = 0
    /\ \A v \in 1..(w - 1) : pool[1].workers[v].chunk # 0
    /\ pool[1].next <= NumChunks(Len(pool[1].bsread_files), pool[1].chunksize)
    /\ pool' = Some([pool[1] EXCEPT
                        !.workers[w] = [chunk |-> pool[1].next, done |-> 0,
                                        self |-> eng, acc |-> <<>>],
                        !.next = pool[1].next + 1])
    /\ UNCHANGED <<eng, last>>

\* a worker runs process_hdf5 on the next file of its chunk
WorkerStep(w) ==
    /\ pool # None
    /\ w \in DOMAIN pool[1].workers
    /\ pool[1].workers[w].chunk # 0
    /\ \E p \in {pool[1]} : \E wk \in {p.workers[w]} :
       \E r \in {process_hdf5(wk.self[1],
                               p.bsread_files[ChunkFirst(wk.chunk, p.chunksize)
                                              + wk.done],
                               p.args.debug)} :
          pool' = Some(
              IF r.r.status = "raise" THEN Deliver(p, w, <<>>, Some(r.r))
              ELSE IF wk.done + 1 = ChunkLen(wk.chunk, p.chunksize, Len(p.bsread_files))
                  THEN Deliver(p, w, Append(wk.acc, r.r.out[1]), None)
              ELSE [p EXCEPT !.workers[w] =
                       [chunk |-> wk.chunk, done |-> wk.done + 1,
                        self |-> Some(r.self), acc |-> Append(wk.acc, r.r.out[1])]])
    /\ UNCHANGED <<eng, last>>

\* every chunk is back: pool.map returns the list or raises the exception
\* kept, and process_eco annotates what it got (lines 234-237)
MapFinish ==
    /\ pool # None
    /\ pool[1].left = 0
    /\ last' = Called("process_eco",
                      [filepath |-> pool[1].args.filepath,
                       nproc |-> pool[1].args.nproc,
                       debug |-> pool[1].args.debug,
                       chunksize |-> pool[1].chunksize,
                       arrived |-> pool[1].arrived],
                      IF pool[1].error # None THEN pool[1].error[1]
                      ELSE Return(Annotate(
                               Tup([i \in 1..Len(pool[1].value) |-> pool[1].value[i][1]]),
                               pool[1].scan_pos_fs)))
    /\ pool' = None
    /\ UNCHANGED eng

\* the engines process_eco is run on: every valid configuration with the
\* default step length and polarity, not calibrated or calibrated
PoolEngines ==
    LET made == {init(bm, 4, ec, dsf, "falling") :
                    bm \in background_methods, ec \in {None, Some("EVENTS")},
                    dsf \in FilterArgs}
        fresh == {r.out[1] : r \in {m \in made : m.status = "ok"}}
    IN  fresh \cup {calibrate_background(e, <<NumRow(Pix(3, 1))>>, None).self :
                       e \in fresh}

InitPool ==
    /\ eng \in {Some(e) : e \in PoolEngines}
    /\ last = None
    /\ pool = None

NextPool ==
    \/ \E sc \in ScanFiles, np \in 1..MaxProc, debug \in BOOLEAN :
          \E chunksize \in 1..MaxScanLen : MapStart(sc, np, debug, chunksize)
    \/ \E w \in 1..MaxProc : WorkerTake(w)
    \/ \E w \in 1..MaxProc : WorkerStep(w)
    \/ MapFinish
    \/ TakeResult

SpecPool == InitPool /\ [][NextPool]_vars

(***************************************************************************)
(* Properties of process_eco on the pool (SpecPool).                       *)
(***************************************************************************)
\* the process_eco call that has just finished, if any
EcoDone == last # None /\ last[1].op = "process_eco"

EcoScanRead == read_eco_scan(last[1].args.filepath)

\* process_hdf5 of file i of the finished call's scan, run alone on the
\* engine the caller holds
Alone(i) == process_hdf5(eng[1], EcoScanRead.bsread_files[i], last[1].args.debug).r

\* C1: a process_eco call that returns, returns one result per entry of the
\* scan, in the order of the scan: result i is the process_hdf5 result of
\* recording i with the scan position of entry i added to it, whatever the
\* worker count, the chunks and the order the chunks came back in.
C1_ScanOrder ==
    (EcoDone /\ last[1].r.status = "ok") =>
        /\ Len(last[1].r.out[1]) = Len(EcoScanRead.bsread_files)
        /\ \A i \in 1..Len(last[1].r.out[1]) :
              /\ Alone(i).status = "ok"
              /\ last[1].r.out[1][i].scan_pos_fs = EcoScanRead.scan_pos_fs[i]
              /\ [f \in DOMAIN Alone(i).out[1] |-> last[1].r.out[1][i][f]]
                    = Alone(i).out[1]

\* two files, two workers, the second file handed back before the first
C1_Witness ==
    /\ EcoDone
    /\ last[1].r.status = "ok"
    /\ last[1].args.nproc = 2
    /\ last[1].args.arrived = <<2, 1>>
    /\ last[1].r.out[1][1].pulse_id # last[1].r.out[1][2].pulse_id

\* C2: the edge positions process_eco returns for a file are those of
\* process_hdf5 run on that file alone with the caller's engine, for every
\* worker count and every chunking: nothing a worker's copy of the engine
\* keeps from an earlier file of its chunk enters the result of a later one.
C2_WorkerIndependent ==
    (EcoDone /\ last[1].r.status = "ok") =>
        \A i \in 1..Len(last[1].r.out[1]) :
            /\ Alone(i).status = "ok"
            /\ last[1].r.out[1][i].edge_pos = Alone(i).out[1].edge_pos
            /\ last[1].r.out[1][i].raw_input = Alone(i).out[1].raw_input

\* one copy of an engine with a dark-shot strategy and no reference ran two
\* files, one after the other, whose dark shots differ
C2_Witness ==
    /\ EcoDone
    /\ last[1].r.status = "ok"
    /\ last[1].args.chunksize = 2
    /\ Len(last[1].r.out[1]) = 2
    /\ eng[1].background = None
    /\ last[1].r.out[1][1].is_dark # None
    /\ last[1].r.out[1][1].edge_pos # last[1].r.out[1][2].edge_pos

\* C3: if process_hdf5 fails on any file of a scan that was handed to the
\* pool, process_eco raises, with the exception of one of the failing files,
\* and returns nothing: no partial list, no placeholder.
C3_FailFast ==
    (EcoDone /\ last[1].args.chunksize > 0
             /\ \E i \in 1..Len(EcoScanRead.bsread_files) : Alone(i).status = "raise") =>
        /\ last[1].r.status = "raise"
        /\ last[1].r.out = None
        /\ \E i \in 1..Len(EcoScanRead.bsread_files) : last[1].r = Alone(i)

\* two workers, one file that cannot be read and one that is processed and
\* handed back first
C3_Witness ==
    /\ EcoDone
    /\ last[1].r.status = "raise"
    /\ last[1].r.err = FileErr
    /\ last[1].args.nproc = 2
    /\ Len(last[1].args.arrived) = 2
    /\ EcoScanRead.bsread_files[last[1].args.arrived[1]] # 3
    /\ last[1].args.chunksize = 1

====
